---------------------------- MODULE Spec2Model ----------------------------
(***************************************************************************)
(* A model of the compliance-checking and issue-reconciliation pipeline of *)
(* the ADGM document analyzer: src/main.py (analyze_files),                *)
(* src/src/ai_agent.py (normalize_issue_key, doc_type_accepts_issue_key,   *)
(* parse_ai_response_to_list, generate_ai_suggestions_for_file),           *)
(* src/src/adgm_analyzer.py (check_required_clauses, find_red_flags,       *)
(* build_issue_report, infer_doc_type_from_text) and                       *)
(* src/src/document_processor.py (extract_text_and_sections,               *)
(* find_paragraph_indexes, annotate_paragraph).                            *)
(*                                                                         *)
(* A Python str is a sequence of one-character strings, so that lower(),   *)
(* strip(), "in" and re.sub are computed character by character.  Python   *)
(* list indexes are kept 0-based where the code stores them.               *)
(***************************************************************************)
EXTENDS Integers, Sequences, FiniteSets, TLC

(***************************************************************************)
(* Python str primitives                                                   *)
(***************************************************************************)
UpperChars == <<"A","B","C","D","E","F","G","H","I","J","K","L","M","N","O","P","Q","R","S","T","U","V","W","X","Y","Z">>
LowerChars == <<"a","b","c","d","e","f","g","h","i","j","k","l","m","n","o","p","q","r","s","t","u","v","w","x","y","z">>
DigitChars == <<"0","1","2","3","4","5","6","7","8","9">>

\* str.isspace() / the regex class \s, on the characters the model uses
SpaceChars == {" ", "\n", "\t"}

Range(f) == {f[i] : i \in DOMAIN f}

\* one character of str.lower()
ToLower == [c \in Range(UpperChars) |->
               LowerChars[CHOOSE i \in 1..Len(UpperChars) : UpperChars[i] = c]]

lower_char(c) == IF c \in DOMAIN ToLower THEN ToLower[c] ELSE c

\* str.lower()
str_lower(s) == [i \in 1..Len(s) |-> lower_char(s[i])]

\* str.strip(): drop leading and trailing whitespace
str_strip(s) ==
    LET keep == {i \in 1..Len(s) : s[i] \notin SpaceChars}
    IN IF keep = {} THEN <<>>
       ELSE LET lo == CHOOSE i \in keep : \A j \in keep : i <= j
                hi == CHOOSE i \in keep : \A j \in keep : j <= i
            IN SubSeq(s, lo, hi)

\* s[i:].startswith(p), i 1-based
starts_at(p, s, i) ==
    /\ i + Len(p) - 1 <= Len(s)
    /\ \A k \in 1..Len(p) : s[i + k - 1] = p[k]

\* Python's "p in s" on strings (the empty string is in every string)
str_in(p, s) == \E i \in 1..(Len(s) - Len(p) + 1) : starts_at(p, s, i)

\* sep.join(parts)
RECURSIVE str_join(_, _)
str_join(sep, parts) ==
    IF Len(parts) = 0 THEN <<>>
    ELSE IF Len(parts) = 1 THEN parts[1]
    ELSE parts[1] \o sep \o str_join(sep, Tail(parts))

(***************************************************************************)
(* The fragment of Python's re the code uses.  A pattern is a sequence of  *)
(* items [neg, cs, q]: a character class (negated when neg) with a         *)
(* quantifier "1", "?" or "*"; quantifiers are greedy and backtrack.       *)
(***************************************************************************)
re_lit(s) == [i \in 1..Len(s) |-> [neg |-> FALSE, cs |-> {s[i]}, q |-> "1"]]
re_opt(c) == << [neg |-> FALSE, cs |-> {c}, q |-> "?"] >>
re_ws_star == << [neg |-> FALSE, cs |-> SpaceChars, q |-> "*"] >>
\* ".*": any character but a line break, any number of times
re_dot_star == << [neg |-> TRUE, cs |-> {"\n"}, q |-> "*"] >>

re_accepts(item, c) == (c \in item.cs) # item.neg

\* The position after the match of pattern re[k..] at t[i..], 0 when there
\* is none (positions are 1-based, so a match never ends at 0).
RECURSIVE re_match(_, _, _, _)
re_match(re, k, t, i) ==
    IF k > Len(re) THEN i
    ELSE LET item == re[k]
             here == i <= Len(t) /\ re_accepts(item, t[i])
         IN CASE item.q = "1" ->
                    IF here THEN re_match(re, k + 1, t, i + 1) ELSE 0
              [] item.q = "?" ->
                    IF here /\ re_match(re, k + 1, t, i + 1) # 0
                    THEN re_match(re, k + 1, t, i + 1)
                    ELSE re_match(re, k + 1, t, i)
              [] item.q = "*" ->
                    \* the longest run of accepted characters is tried
                    \* first, then each shorter one
                    LET stop == {j \in i..(Len(t) + 1) :
                                    j > Len(t) \/ ~ re_accepts(item, t[j])}
                        last == CHOOSE j \in stop : \A j2 \in stop : j <= j2
                        ends == {j \in i..last : re_match(re, k + 1, t, j) # 0}
                    IN IF ends = {} THEN 0
                       ELSE re_match(re, k + 1, t,
                                     CHOOSE j \in ends : \A j2 \in ends : j2 <= j)

\* a pattern A|B is the sequence <<A, B>>: the first alternative that
\* matches at i wins
RECURSIVE re_match_alts(_, _, _, _)
re_match_alts(alts, a, t, i) ==
    IF a > Len(alts) THEN 0
    ELSE LET e == re_match(alts[a], 1, t, i)
         IN IF e # 0 THEN e ELSE re_match_alts(alts, a + 1, t, i)

\* re.sub(alts, rep, t) from position i on: leftmost, non-overlapping
\* (no pattern of the code matches the empty string)
RECURSIVE re_sub_from(_, _, _, _)
re_sub_from(alts, rep, t, i) ==
    IF i > Len(t) THEN <<>>
    ELSE LET e == re_match_alts(alts, 1, t, i)
         IN IF e > i THEN rep \o re_sub_from(alts, rep, t, e)
            ELSE <<t[i]>> \o re_sub_from(alts, rep, t, i + 1)

re_sub(alts, rep, t) == re_sub_from(alts, rep, t, 1)

\* re.sub of a pattern anchored with ^: only a match at the start counts
re_sub_anchored(alts, rep, t) ==
    LET e == re_match_alts(alts, 1, t, 1)
    IN IF e > 1 THEN rep \o SubSeq(t, e, Len(t)) ELSE t

(***************************************************************************)
(* ai_agent.normalize_issue_key                                            *)
(***************************************************************************)
\* r"^(missing required clause|red flag)\s*:\s*"
prefix_pattern ==
    LET tail == re_ws_star \o re_lit(<<":">>) \o re_ws_star
    IN << re_lit(<<"m","i","s","s","i","n","g"," ","r","e","q","u","i","r","e","d"," ","c","l","a","u","s","e">>) \o tail,
          re_lit(<<"r","e","d"," ","f","l","a","g">>) \o tail >>

\* the ordered (pattern, replacement) list
replacements == <<
    [pat |-> << re_lit(<<"a","b","u"," ","d","h","a","b","i"," ","g","l","o","b","a","l"," ","m","a","r","k","e","t">>) >>, rep |-> <<"a","d","g","m">>],
    [pat |-> << re_lit(<<"u">>) \o re_opt(".") \o re_lit(<<"a">>) \o re_opt(".")
                  \o re_lit(<<"e">>) \o re_opt(".") \o re_ws_star
                  \o re_lit(<<"f","e","d","e","r","a","l"," ","c","o","u","r","t">>) >>,
     rep |-> <<"u","a","e"," ","f","e","d","e","r","a","l"," ","c","o","u","r","t">>],
    [pat |-> << re_lit(<<"r","e","g","i","s","t","e","r","e","d"," ","a","d","d","r","e","s","s">>) >>, rep |-> <<"r","e","g","i","s","t","e","r","e","d"," ","a","d","d","r","e","s","s">>],
    [pat |-> << re_lit(<<"s","i","g","n","a","t","o","r","i","e">>) \o re_opt("s") >>, rep |-> <<"s","i","g","n","a","t","o","r","i","e","s">>],
    [pat |-> << re_lit(<<"j","u","r","i","s","d","i","c","t","i","o","n">>) >>, rep |-> <<"j","u","r","i","s","d","i","c","t","i","o","n">>],
    [pat |-> << re_lit(<<"a","m","b","i","g","u","o","u","s">>) \o re_dot_star \o re_lit(<<"l","a","n","g","u","a","g","e">>),
                re_lit(<<"n","o","n","-","b","i","n","d","i","n","g">>) >>,
     rep |-> <<"a","m","b","i","g","u","i","t","y">>],
    [pat |-> << re_lit(<<"a","p","p","e","a","r","s"," ","t","o"," ","b","e"," ","m","i","s","s","i","n","g"," ","s","i","g","n","a","t","o","r","y"," ","s","e","c","t","i","o","n">>) >>,
     rep |-> <<"s","i","g","n","a","t","o","r","i","e","s">>] >>

\* for pat, rep in replacements: t = re.sub(pat, rep, t)
RECURSIVE apply_replacements(_, _)
apply_replacements(k, t) ==
    IF k > Len(replacements) THEN t
    ELSE apply_replacements(k + 1, re_sub(replacements[k].pat, replacements[k].rep, t))

\* re.sub(r"[^a-z0-9\s]", " ", t)
KeptChars == Range(LowerChars) \cup Range(DigitChars) \cup SpaceChars

keep_alnum_space(t) == [i \in 1..Len(t) |-> IF t[i] \in KeptChars THEN t[i] ELSE " "]

\* re.sub(r"\s+", " ", t)
RECURSIVE collapse_ws_from(_, _)
collapse_ws_from(t, i) ==
    IF i > Len(t) THEN <<>>
    ELSE IF t[i] \in SpaceChars
         THEN IF i > 1 /\ t[i - 1] \in SpaceChars
              THEN collapse_ws_from(t, i + 1)
              ELSE <<" ">> \o collapse_ws_from(t, i + 1)
         ELSE <<t[i]>> \o collapse_ws_from(t, i + 1)

collapse_ws(t) == collapse_ws_from(t, 1)

normalize_issue_key(text) ==
    LET t0 == str_strip(str_lower(text))
        t1 == re_sub_anchored(prefix_pattern, <<>>, t0)
        t2 == apply_replacements(1, t1)
        t3 == keep_alnum_space(t2)
    IN str_strip(collapse_ws(t3))

(***************************************************************************)
(* Python values that are not str.  A JSON value read from the rule file   *)
(* is a record tagged t: "dict" (m, a function on its keys), "list"        *)
(* (items), "str" (v), "num" (v) or "null".  A call that can raise returns *)
(* [raised |-> FALSE, value |-> v] or [raised |-> TRUE, exc |-> name].     *)
(***************************************************************************)
Returned(v) == [raised |-> FALSE, value |-> v]
Raised(e) == [raised |-> TRUE, exc |-> e]

JNull == [t |-> "null"]
JNum(n) == [t |-> "num", v |-> n]
JStr(s) == [t |-> "str", v |-> s]
JList(xs) == [t |-> "list", items |-> xs]
JDict(f) == [t |-> "dict", m |-> f]

\* bool(x) of a JSON value
truthy(j) ==
    CASE j.t = "null" -> FALSE
      [] j.t = "num" -> j.v # 0
      [] j.t = "str" -> Len(j.v) > 0
      [] j.t = "list" -> Len(j.items) > 0
      [] j.t = "dict" -> DOMAIN j.m # {}

(***************************************************************************)
(* document_processor.extract_text_and_sections                            *)
(***************************************************************************)
max_paragraphs == 10000

\* the non-empty stripped texts among the first max_paragraphs paragraphs
RECURSIVE extract_paragraphs(_, _)
extract_paragraphs(raw, i) ==
    IF i > Len(raw) \/ i - 1 >= max_paragraphs THEN <<>>
    ELSE LET text == str_strip(raw[i])
         IN IF Len(text) = 0 THEN extract_paragraphs(raw, i + 1)
            ELSE <<text>> \o extract_paragraphs(raw, i + 1)

extract_text_and_sections(raw) ==
    LET paragraphs == extract_paragraphs(raw, 1)
    IN [paragraphs |-> paragraphs, full_text |-> str_join(<<"\n">>, paragraphs)]

(***************************************************************************)
(* adgm_analyzer.check_required_clauses                                    *)
(***************************************************************************)
\* for clause in required_clauses: the stripped keywords absent from text
RECURSIVE missing_of(_, _, _)
missing_of(clauses, i, text) ==
    IF i > Len(clauses) THEN <<>>
    ELSE LET key == str_strip(clauses[i])
         IN IF Len(key) = 0 THEN missing_of(clauses, i + 1, text)
            ELSE IF ~ str_in(str_lower(key), text)
                 THEN <<key>> \o missing_of(clauses, i + 1, text)
                 ELSE missing_of(clauses, i + 1, text)

\* check_required_clauses from its second statement on, text being the
\* lowercased full text
required_missing(text, doc_type, rules) ==
    LET \* rules.get("clauses_per_doc", {})
        clauses_per_doc == IF "clauses_per_doc" \in DOMAIN rules
                           THEN rules.clauses_per_doc ELSE JDict(<<>>)
    IN IF clauses_per_doc.t # "dict"
       THEN Raised("AttributeError")       \* no .get on None, list, ...
       ELSE LET \* clauses_per_doc.get(doc_type, []) or []
                got == IF doc_type \in DOMAIN clauses_per_doc.m
                       THEN clauses_per_doc.m[doc_type] ELSE JList(<<>>)
                required_clauses == IF truthy(got) THEN got ELSE JList(<<>>)
            IN CASE required_clauses.t = "list" ->
                        Returned(missing_of(required_clauses.items, 1, text))
                 [] required_clauses.t = "str" ->
                        \* a str iterates as its characters
                        Returned(missing_of([i \in 1..Len(required_clauses.v) |->
                                                <<required_clauses.v[i]>>], 1, text))
                 [] required_clauses.t = "num" ->
                        Raised("TypeError")        \* an int is not iterable

\* faulty variant: the full text is searched as written, without .lower()
check_required_clauses_text_as_written(doc_info, doc_type, rules) ==
    required_missing(doc_info.full_text, doc_type, rules)

check_required_clauses(doc_info, doc_type, rules) ==
    required_missing(str_lower(doc_info.full_text), doc_type, rules)

(***************************************************************************)
(* adgm_analyzer.find_red_flags                                            *)
(***************************************************************************)
ambiguous_markers == << <<"m","a","y"," ","c","o","n","s","i","d","e","r">>, <<"w","h","e","r","e"," ","p","o","s","s","i","b","l","e">>, <<"a","s"," ","a","p","p","r","o","p","r","i","a","t","e">>,
                        <<"a","t"," ","i","t","s"," ","d","i","s","c","r","e","t","i","o","n">> >>

requires_signature == { <<"A","r","t","i","c","l","e","s"," ","o","f"," ","A","s","s","o","c","i","a","t","i","o","n">>, <<"M","e","m","o","r","a","n","d","u","m"," ","o","f"," ","A","s","s","o","c","i","a","t","i","o","n">>,
                        <<"B","o","a","r","d"," ","R","e","s","o","l","u","t","i","o","n">>, <<"S","h","a","r","e","h","o","l","d","e","r"," ","R","e","s","o","l","u","t","i","o","n">>,
                        <<"U","B","O"," ","D","e","c","l","a","r","a","t","i","o","n"," ","F","o","r","m">>, <<"I","n","c","o","r","p","o","r","a","t","i","o","n"," ","A","p","p","l","i","c","a","t","i","o","n"," ","F","o","r","m">> }

\* find_red_flags from its second statement on, text being the lowercased
\* full text
red_flags_of(text, doc_type) ==
    LET jurisdiction ==
            IF str_in(<<"u","a","e"," ","f","e","d","e","r","a","l"," ","c","o","u","r","t">>, text)
            THEN << [issue |-> <<"R","e","f","e","r","e","n","c","e","s"," ","U","A","E"," ","F","e","d","e","r","a","l"," ","C","o","u","r","t"," ","i","n","s","t","e","a","d"," ","o","f"," ","A","D","G","M">>,
                     severity |-> "High", match |-> <<"U","A","E"," ","F","e","d","e","r","a","l"," ","C","o","u","r","t">>] >>
            ELSE <<>>
        ambiguous ==
            IF \E k \in 1..Len(ambiguous_markers) : str_in(ambiguous_markers[k], text)
            THEN << [issue |-> <<"A","m","b","i","g","u","o","u","s"," ","o","r"," ","n","o","n","-","b","i","n","d","i","n","g"," ","l","a","n","g","u","a","g","e">>,
                     severity |-> "Medium",
                     match |-> str_join(<<";"," ">>, ambiguous_markers)] >>
            ELSE <<>>
        signature ==
            IF doc_type \in requires_signature
               /\ ~ str_in(<<"s","i","g","n">>, text) /\ ~ str_in(<<"s","i","g","n","a","t","u","r","e">>, text)
            THEN << [issue |-> <<"A","p","p","e","a","r","s"," ","t","o"," ","b","e"," ","m","i","s","s","i","n","g"," ","s","i","g","n","a","t","o","r","y"," ","s","e","c","t","i","o","n">>,
                     severity |-> "High", match |-> <<"s","i","g","n","a","t","u","r","e">>] >>
            ELSE <<>>
    IN jurisdiction \o ambiguous \o signature

\* faulty variant: the full text is searched as written, without .lower()
find_red_flags_text_as_written(doc_info, doc_type) ==
    red_flags_of(doc_info.full_text, doc_type)

find_red_flags(doc_info, doc_type) ==
    red_flags_of(str_lower(doc_info.full_text), doc_type)

(***************************************************************************)
(* adgm_analyzer.build_issue_report                                        *)
(***************************************************************************)
build_issue_report(doc_type, missing_clauses, red_flags) ==
    [i \in 1..Len(missing_clauses) |->
        [document |-> doc_type, section |-> <<"N","/","A">>,
         issue |-> <<"M","i","s","s","i","n","g"," ","r","e","q","u","i","r","e","d"," ","c","l","a","u","s","e",":"," ">> \o missing_clauses[i],
         severity |-> "High",
         suggestion |-> <<"A","d","d"," ","c","l","a","u","s","e"," ","r","e","f","e","r","e","n","c","i","n","g"," ","'">> \o missing_clauses[i] \o <<"'",".">>]]
    \o
    [i \in 1..Len(red_flags) |->
        [document |-> doc_type, section |-> <<"N","/","A">>,
         issue |-> red_flags[i].issue,
         severity |-> red_flags[i].severity,
         suggestion |-> <<"A","l","i","g","n"," ","w","i","t","h"," ","A","D","G","M"," ","w","o","r","d","i","n","g"," ","w","h","e","r","e"," ","a","p","p","l","i","c","a","b","l","e",".">>]]

(***************************************************************************)
(* adgm_analyzer.infer_doc_type_from_text                                  *)
(***************************************************************************)
infer_doc_type_from_text(text) ==
    LET t == str_lower(text)
    IN IF str_in(<<"a","r","t","i","c","l","e","s"," ","o","f"," ","a","s","s","o","c","i","a","t","i","o","n">>, t) THEN <<"A","r","t","i","c","l","e","s"," ","o","f"," ","A","s","s","o","c","i","a","t","i","o","n">>
       ELSE IF str_in(<<"m","e","m","o","r","a","n","d","u","m"," ","o","f"," ","a","s","s","o","c","i","a","t","i","o","n">>, t)
               \/ str_in(<<"m","e","m","o","r","a","n","d","u","m"," ","o","f"," ","u","n","d","e","r","s","t","a","n","d","i","n","g">>, t)
               \/ str_in(<<"m","o","a">>, t) \/ str_in(<<"m","o","u">>, t)
            THEN <<"M","e","m","o","r","a","n","d","u","m"," ","o","f"," ","A","s","s","o","c","i","a","t","i","o","n">>
       ELSE IF str_in(<<"r","e","g","i","s","t","e","r"," ","o","f"," ","m","e","m","b","e","r","s">>, t) \/ str_in(<<"r","e","g","i","s","t","e","r"," ","o","f"," ","d","i","r","e","c","t","o","r","s">>, t)
            THEN <<"R","e","g","i","s","t","e","r"," ","o","f"," ","M","e","m","b","e","r","s"," ","a","n","d"," ","D","i","r","e","c","t","o","r","s">>
       ELSE IF str_in(<<"b","o","a","r","d"," ","r","e","s","o","l","u","t","i","o","n">>, t) THEN <<"B","o","a","r","d"," ","R","e","s","o","l","u","t","i","o","n">>
       ELSE IF str_in(<<"u","l","t","i","m","a","t","e"," ","b","e","n","e","f","i","c","i","a","l"," ","o","w","n","e","r">>, t) \/ str_in(<<"u","b","o">>, t)
            THEN <<"U","B","O"," ","D","e","c","l","a","r","a","t","i","o","n"," ","F","o","r","m">>
       ELSE <<"U","n","k","n","o","w","n">>

(***************************************************************************)
(* ai_agent.doc_type_accepts_issue_key                                     *)
(***************************************************************************)
COMMON == { <<"j","u","r","i","s","d","i","c","t","i","o","n">>, <<"a","d","g","m">>, <<"a","m","b","i","g","u","i","t","y">>, <<"s","i","g","n","a","t","o","r","i","e","s">> }
AOA_KEYS == COMMON \cup { <<"c","o","m","p","a","n","y"," ","n","a","m","e">>, <<"o","b","j","e","c","t","s">>, <<"s","h","a","r","e"," ","c","a","p","i","t","a","l">>,
                          <<"d","i","r","e","c","t","o","r","s">>, <<"d","i","v","i","d","e","n","d","s">> }
MOA_KEYS == COMMON \cup { <<"r","e","g","i","s","t","e","r","e","d"," ","a","d","d","r","e","s","s">>, <<"o","b","j","e","c","t","s">>, <<"s","h","a","r","e"," ","c","a","p","i","t","a","l">> }
RES_KEYS == COMMON \cup { <<"r","e","s","o","l","u","t","i","o","n"," ","a","p","p","r","o","v","a","l">>, <<"a","u","t","h","o","r","i","z","e","d"," ","r","e","p","r","e","s","e","n","t","a","t","i","v","e">> }
REG_KEYS == COMMON \cup { <<"r","e","g","i","s","t","e","r">>, <<"m","e","m","b","e","r","s">>, <<"d","i","r","e","c","t","o","r","s">> }
UBO_KEYS == COMMON \cup { <<"u","b","o">>, <<"b","e","n","e","f","i","c","i","a","l"," ","o","w","n","e","r">>, <<"d","e","c","l","a","r","a","t","i","o","n">> }

\* the allow-list chosen by the if/elif chain on the lowercased type
allow_list(doc_type) ==
    LET dt == str_lower(doc_type)
    IN IF str_in(<<"a","r","t","i","c","l","e","s"," ","o","f"," ","a","s","s","o","c","i","a","t","i","o","n">>, dt) THEN AOA_KEYS
       ELSE IF str_in(<<"m","e","m","o","r","a","n","d","u","m"," ","o","f"," ","a","s","s","o","c","i","a","t","i","o","n">>, dt) THEN MOA_KEYS
       ELSE IF str_in(<<"b","o","a","r","d"," ","r","e","s","o","l","u","t","i","o","n">>, dt) THEN RES_KEYS
       ELSE IF str_in(<<"r","e","g","i","s","t","e","r"," ","o","f"," ","m","e","m","b","e","r","s"," ","a","n","d"," ","d","i","r","e","c","t","o","r","s">>, dt) THEN REG_KEYS
       ELSE IF str_in(<<"u","b","o">>, dt) THEN UBO_KEYS
       ELSE COMMON

\* faulty variant: one allow-list for every document type
doc_type_accepts_any_type_key(doc_type, issue_key) ==
    LET k == str_lower(issue_key)
    IN IF Len(k) = 0 THEN FALSE
       ELSE \E tok \in AOA_KEYS \cup MOA_KEYS \cup RES_KEYS \cup REG_KEYS \cup UBO_KEYS :
               str_in(tok, k)

doc_type_accepts_issue_key(doc_type, issue_key) ==
    LET k == str_lower(issue_key)
    IN IF Len(k) = 0 THEN FALSE
       ELSE \E tok \in allow_list(doc_type) : str_in(tok, k)

(***************************************************************************)
(* ai_agent.parse_ai_response_to_list                                      *)
(* The service's reply is kept as what json.loads makes of it: brackets is *)
(* whether it holds a "[" with a "]" after it, inner the value of the text *)
(* from the first "[" to the last "]", whole the value of the whole text;  *)
(* JInvalid where json.loads raises.                                       *)
(***************************************************************************)
JInvalid == [t |-> "invalid"]

parse_ai_response_to_list(text) ==
    LET loaded == IF text.brackets THEN text.inner ELSE text.whole
    IN IF loaded = JInvalid THEN JList(<<>>) ELSE loaded

(***************************************************************************)
(* ai_agent.generate_ai_suggestions_for_file                               *)
(* reply is what call_groq_compatible_chat did (it raises on a timeout, a  *)
(* non-2xx status or a malformed body); top_refs are the labels of the     *)
(* reference snippets retrieve_top_k returned.                             *)
(***************************************************************************)
\* any("citation_label" not in s for s in suggestions), item by item
RECURSIVE any_label_missing(_, _)
any_label_missing(items, i) ==
    IF i > Len(items) THEN Returned(FALSE)
    ELSE CASE items[i].t = "dict" ->
                IF "citation_label" \notin DOMAIN items[i].m THEN Returned(TRUE)
                ELSE any_label_missing(items, i + 1)
           [] items[i].t = "str" ->
                IF ~ str_in(<<"c","i","t","a","t","i","o","n","_","l","a","b","e","l">>, items[i].v) THEN Returned(TRUE)
                ELSE any_label_missing(items, i + 1)
           [] OTHER -> Raised("TypeError")   \* "in" on a number or null

\* s.setdefault("citation_label", default_label)
set_default_label(item, default_label) ==
    IF "citation_label" \in DOMAIN item.m THEN item
    ELSE [item EXCEPT !.m = @ @@ [citation_label |-> default_label]]

\* what "for s in suggestions" yields
items_of(j) ==
    CASE j.t = "list" -> j.items
      [] j.t = "str" -> [i \in 1..Len(j.v) |-> JStr(<<j.v[i]>>)]

generate_ai_suggestions_for_file(reply, top_refs) ==
    IF reply.raised THEN Raised(reply.exc)
    ELSE LET suggestions == parse_ai_response_to_list(reply.value)
         IN IF ~ (truthy(suggestions) /\ Len(top_refs) > 0) THEN Returned(suggestions)
            ELSE CASE suggestions.t = "num" -> Raised("TypeError")
                   \* the keys of a dict and the characters of a str have no setdefault
                   [] suggestions.t = "dict" -> Raised("AttributeError")
                   [] suggestions.t = "str" -> Raised("AttributeError")
                   [] suggestions.t = "list" ->
                        LET missing == any_label_missing(suggestions.items, 1)
                        IN IF missing.raised THEN missing
                           ELSE IF ~ missing.value THEN Returned(suggestions)
                           ELSE IF \E i \in 1..Len(suggestions.items) :
                                        suggestions.items[i].t # "dict"
                                THEN Raised("AttributeError")
                                ELSE Returned(JList(
                                        [i \in 1..Len(suggestions.items) |->
                                            set_default_label(suggestions.items[i],
                                                              top_refs[1])]))

(***************************************************************************)
(* document_processor.find_paragraph_indexes, annotate_paragraph           *)
(***************************************************************************)
Max(a, b) == IF a >= b THEN a ELSE b

\* the 0-based indexes of the paragraphs that contain the snippet
RECURSIVE find_from(_, _, _)
find_from(snippet, paragraphs, i) ==
    IF i > Len(paragraphs) THEN <<>>
    ELSE IF str_in(snippet, str_lower(paragraphs[i]))
         THEN <<i - 1>> \o find_from(snippet, paragraphs, i + 1)
         ELSE find_from(snippet, paragraphs, i + 1)

find_paragraph_indexes(text_snippet, paragraphs) ==
    IF Len(text_snippet) = 0 THEN <<>>
    ELSE find_from(str_lower(text_snippet), paragraphs, 1)

\* doc is the sequence of the document's paragraphs (blank ones included),
\* each [text, runs]; the result is doc with the comment run added.  With
\* no paragraph at all doc.paragraphs[0] raises, which the function catches.
annotate_paragraph(doc, para_index, comment_text, highlight) ==
    LET idx == IF para_index < 0 \/ para_index >= Len(doc)
               THEN Max(0, Len(doc) - 1) ELSE para_index
        color == IF highlight = "RED" THEN "RED" ELSE "YELLOW"
    IN IF idx >= Len(doc) THEN doc
       ELSE [doc EXCEPT ![idx + 1].runs =
                Append(@, [text |-> <<" ","[","C","O","M","M","E","N","T",":"," ">> \o comment_text \o <<"]">>,
                           highlight |-> color])]

(***************************************************************************)
(* main.infer_doc_type_from_filename                                       *)
(***************************************************************************)
\* os.path.basename: what follows the last "/"
basename(path) ==
    LET slashes == {i \in 1..Len(path) : path[i] = "/"}
    IN IF slashes = {} THEN path
       ELSE SubSeq(path, (CHOOSE i \in slashes : \A j \in slashes : j <= i) + 1,
                   Len(path))

infer_doc_type_from_filename(file_path) ==
    LET fname == str_lower(basename(file_path))
    IN IF str_in(<<"a","r","t","i","c","l","e","s">>, fname) THEN <<"A","r","t","i","c","l","e","s"," ","o","f"," ","A","s","s","o","c","i","a","t","i","o","n">>
       ELSE IF str_in(<<"m","e","m","o","r","a","n","d","u","m">>, fname) \/ str_in(<<"m","o","u">>, fname)
            THEN <<"M","e","m","o","r","a","n","d","u","m"," ","o","f"," ","A","s","s","o","c","i","a","t","i","o","n">>
       ELSE IF str_in(<<"r","e","g","i","s","t","e","r">>, fname) THEN <<"R","e","g","i","s","t","e","r"," ","o","f"," ","M","e","m","b","e","r","s"," ","a","n","d"," ","D","i","r","e","c","t","o","r","s">>
       ELSE IF str_in(<<"r","e","s","o","l","u","t","i","o","n">>, fname) THEN <<"B","o","a","r","d"," ","R","e","s","o","l","u","t","i","o","n">>
       ELSE IF str_in(<<"u","b","o">>, fname) THEN <<"U","B","O"," ","D","e","c","l","a","r","a","t","i","o","n"," ","F","o","r","m">>
       ELSE <<"U","n","k","n","o","w","n">>

(***************************************************************************)
(* State                                                                   *)
(***************************************************************************)
VARIABLES
    \* -- main.analyze_files ------------------------------------------------
    pc,                 \* where analyze_files is
    exc,                \* the exception that left analyze_files, "" if none
    rules,              \* load_rules()
    ai_active,          \* bool(use_ai and OPENAI_API_KEY)
    files_done,         \* how many files of file_paths were processed and saved
    file_path,          \* the file of the current iteration
    name_type,          \* infer_doc_type_from_filename(file_path)
    content_calls,      \* calls of infer_doc_type_from_text for this file
    doc_type,
    doc_info,           \* extract_text_and_sections: paragraphs, full_text
    missing_clauses,
    red_flags,
    file_issues,        \* the findings of the current file
    ai_suggestions,     \* a JSON list (or str) once fetched
    issue_keys_current, \* normalized keys of file_issues, computed before the merge
    sug_pos,            \* how many suggestions the merge loop has processed
    seen_comments,      \* set of <<paragraph index, comment.lower().strip()>>
    doc,                \* Document(file_path): every paragraph, with its added runs
    ann_calls,          \* the annotate_paragraph calls made for this file, in order
    \* -- the rule engine on its own -----------------------------------------
    r_pc,
    r_raw,              \* the document's paragraphs
    r_type,
    r_rules,
    r_signed,           \* whether "Signature:" was added to the text
    r_missing,          \* result of check_required_clauses
    r_flags,            \* result of find_red_flags
    \* -- normalize_issue_key on its own -------------------------------------
    n_x,                \* the string normalize_issue_key is applied to
    n_prev,             \* the string before the latest application
    n_pieces,           \* how many fragments the input was built from
    n_applied           \* how many times normalize_issue_key was applied

fileVars == <<file_path, name_type, content_calls, doc_type, doc_info,
              missing_clauses, red_flags, file_issues, ai_suggestions,
              issue_keys_current, sug_pos, seen_comments, doc, ann_calls>>
mainVars == <<pc, exc, rules, ai_active, files_done, fileVars>>
ruleVars == <<r_pc, r_raw, r_type, r_rules, r_signed, r_missing, r_flags>>
normVars == <<n_x, n_prev, n_pieces, n_applied>>
vars == <<mainVars, ruleVars, normVars>>

MainIdle ==
    /\ pc = "start" /\ exc = "" /\ rules = <<>> /\ ai_active = FALSE
    /\ files_done = 0
    /\ file_path = <<>> /\ name_type = <<>> /\ content_calls = 0
    /\ doc_type = <<>> /\ doc_info = [paragraphs |-> <<>>, full_text |-> <<>>]
    /\ missing_clauses = <<>> /\ red_flags = <<>> /\ file_issues = <<>>
    /\ ai_suggestions = JList(<<>>) /\ issue_keys_current = <<>> /\ sug_pos = 0
    /\ seen_comments = {} /\ doc = <<>> /\ ann_calls = <<>>

RuleIdle ==
    /\ r_pc = "idle" /\ r_raw = <<>> /\ r_type = <<>> /\ r_rules = <<>>
    /\ r_signed = FALSE /\ r_missing = Returned(<<>>) /\ r_flags = <<>>

NormIdle ==
    /\ n_x = <<>> /\ n_prev = <<>> /\ n_pieces = 0 /\ n_applied = 0

(***************************************************************************)
(* Inputs: rule files, documents, replies of the suggestion service        *)
(***************************************************************************)
AOA == <<"A","r","t","i","c","l","e","s"," ","o","f"," ","A","s","s","o","c","i","a","t","i","o","n">>
MOA == <<"M","e","m","o","r","a","n","d","u","m"," ","o","f"," ","A","s","s","o","c","i","a","t","i","o","n">>
RES == <<"B","o","a","r","d"," ","R","e","s","o","l","u","t","i","o","n">>
REG == <<"R","e","g","i","s","t","e","r"," ","o","f"," ","M","e","m","b","e","r","s"," ","a","n","d"," ","D","i","r","e","c","t","o","r","s">>
UBO == <<"U","B","O"," ","D","e","c","l","a","r","a","t","i","o","n"," ","F","o","r","m">>
SHR == <<"S","h","a","r","e","h","o","l","d","e","r"," ","R","e","s","o","l","u","t","i","o","n">>
INC == <<"I","n","c","o","r","p","o","r","a","t","i","o","n"," ","A","p","p","l","i","c","a","t","i","o","n"," ","F","o","r","m">>
UNKNOWN == <<"U","n","k","n","o","w","n">>

DocTypes == {AOA, MOA, RES, REG, UBO, SHR, INC, UNKNOWN}

\* config/adgm_rules.json as it may be written: well-formed entries (with a
\* keyword in another case than the text's, a repeated keyword, padded
\* keywords), and malformed ones (null, numbers, a string); no entry for
\* "Unknown"
RulesMain ==
    [clauses_per_doc |-> JDict(
        (AOA :> JList(<< <<"A","R","T","I","C","L","E","S">>, <<"J","u","r","i","s","d","i","c","t","i","o","n">>, <<"S","i","g","n","a","t","o","r","i","e","s">>, <<"s","i","g","n","a","t","o","r","i","e","s"," ">> >>))
     @@ (REG :> JList(<< <<" ","D","i","r","e","c","t","o","r","s">>, <<"M","e","m","b","e","r","s"," ">>, <<" "," ">> >>))
     @@ (UBO :> JList(<< <<"D","e","c","l","a","r","a","t","i","o","n">> >>))
     @@ (MOA :> JNull)
     @@ (RES :> JNum(5))
     @@ (SHR :> JNum(0))
     @@ (INC :> JStr(<<"a","b">>)))]
\* no "clauses_per_doc" key at all
RulesNoKey == [required_documents |-> JList(<< AOA >>)]
\* "clauses_per_doc" is not a mapping
RulesList == [clauses_per_doc |-> JList(<< <<"S","i","g","n","a","t","o","r","i","e","s">> >>)]
RulesNull == [clauses_per_doc |-> JNull]

RuleFiles == {RulesMain, RulesNoKey, RulesList, RulesNull}

\* uploaded files: the path and the paragraphs of the .docx
Files == {
    [path |-> <<"a","r","t","i","c","l","e","s",".","d","o","c","x">>,
     raw |-> << <<"A","r","t","i","c","l","e","s"," ","o","f"," ","A","s","s","o","c","i","a","t","i","o","n">>, <<>>, <<"D","i","s","p","u","t","e","s",":"," ","U","A","E"," ","F","e","d","e","r","a","l"," ","C","o","u","r","t">>,
                <<"B","o","a","r","d"," ","m","a","y"," ","c","o","n","s","i","d","e","r"," ","d","i","v","i","d","e","n","d","s">> >>],
    [path |-> <<"r","e","g","i","s","t","e","r",".","d","o","c","x">>,
     raw |-> << <<"R","e","g","i","s","t","e","r"," ","o","f"," ","M","e","m","b","e","r","s">>, <<"S","i","g","n","a","t","u","r","e",":"," ","A">> >>],
    [path |-> <<"i","n","/","a","r","t","i","c","l","e","s","/","s","c","a","n","1",".","d","o","c","x">>,
     raw |-> << <<" ">>, <<"B","o","a","r","d"," ","R","e","s","o","l","u","t","i","o","n">>, <<"A","p","p","r","o","v","e","d"," ","a","s"," ","a","p","p","r","o","p","r","i","a","t","e">> >>],
    [path |-> <<"u","b","o",".","d","o","c","x">>, raw |-> << >>] }

\* records the service may return, and a list element that is no record
SugSignatories ==
    [t |-> "dict",
     m |-> [issue |-> <<"S","i","g","n","a","t","o","r","i","e","s"," ","m","i","s","s","i","n","g">>, suggestion |-> <<"A","d","d"," ","a"," ","s","i","g","n","a","t","u","r","e"," ","b","l","o","c","k">>,
            rationale |-> <<"U","n","s","i","g","n","e","d">>, citation_label |-> <<"A","D","G","M"," ","R","e","g","s">>]]
SugShareCapital ==
    [t |-> "dict",
     m |-> [issue |-> <<"S","h","a","r","e"," ","c","a","p","i","t","a","l",":"," ","u","n","c","l","e","a","r">>, suggestion |-> <<"S","t","a","t","e"," ","t","h","e"," ","c","a","p","i","t","a","l">>]]
SugDividends ==
    [t |-> "dict",
     m |-> [issue |-> <<"D","i","v","i","d","e","n","d","s">>, suggestion |-> <<"S","t","a","t","e"," ","t","h","e"," ","c","a","p","i","t","a","l">>,
            citation_label |-> <<>>]]
SugNoIssue ==
    [t |-> "dict", m |-> [suggestion |-> <<"R","e","v","i","e","w"," ","w","o","r","d","i","n","g">>]]
SugItems == {SugSignatories, SugShareCapital, SugDividends, SugNoIssue, JStr(<<"n","o","t","e">>)}

MaxSugs == 2
MaxFiles == 2

SugLists == UNION { [1..k -> SugItems] : k \in 0..MaxSugs }

\* the text the service sent, as json.loads reads it
PlainText(j) == [brackets |-> FALSE, inner |-> JInvalid, whole |-> j]
Bracketed(j) == [brackets |-> TRUE, inner |-> j, whole |-> JInvalid]

Replies ==
    { Raised("Timeout"), Raised("HTTPError") }
    \cup { Returned(PlainText(j)) :
             j \in { JInvalid, JNum(5), JNull, JStr(<<"o","k">>),
                     JDict([issue |-> <<"D","i","v","i","d","e","n","d","s">>]) } }
    \cup { Returned(Bracketed(JInvalid)) }
    \cup { Returned(Bracketed(JList(l))) : l \in SugLists }

TopRefs == { <<>>, << <<"A","D","G","M"," ","C","o","m","p","a","n","i","e","s"," ","R","e","g","s">> >> }

(***************************************************************************)
(* normalize_issue_key as a function of arbitrary issue text               *)
(***************************************************************************)
MaxPieces == 4

Fragments == { <<"a","b","u">>, <<"d","h","a","b","i"," ","g","l","o","b","a","l"," ","m","a","r","k","e","t">>, <<" ">>, <<"-">>, <<"\n">>,
               <<"a","m","b","i","g","u","o","u","s">>, <<"l","a","n","g","u","a","g","e">>, <<"R","e","d"," ","F","l","a","g",":">> }

NormInit == NormIdle /\ MainIdle /\ RuleIdle

\* the caller builds an issue description
NormAppend ==
    /\ n_applied = 0
    /\ n_pieces < MaxPieces
    /\ \E f \in Fragments : n_x' = n_x \o f
    /\ n_pieces' = n_pieces + 1
    /\ UNCHANGED <<n_prev, n_applied, mainVars, ruleVars>>

\* key = normalize_issue_key(x), and again on the key
NormApply ==
    /\ n_applied < 2
    /\ n_prev' = n_x
    /\ n_x' = normalize_issue_key(n_x)
    /\ n_applied' = n_applied + 1
    /\ UNCHANGED <<n_pieces, mainVars, ruleVars>>

NormNext == NormAppend \/ NormApply

SpecNorm == NormInit /\ [][NormNext]_vars

(***************************************************************************)
(* The rule engine as a function of document, type and rule set            *)
(***************************************************************************)
RuleDocs == {
    << <<"A","r","t","i","c","l","e","s"," ","o","f"," ","A","s","s","o","c","i","a","t","i","o","n">>, <<"D","i","r","e","c","t","o","r","s"," ","m","a","y"," ","a","c","t">> >>,
    << <<"R","e","g","i","s","t","e","r"," ","o","f"," ","M","e","m","b","e","r","s">>, <<"D","i","r","e","c","t","o","r","s",":"," ","A">> >>,
    << <<"S","I","G","N","E","D"," ","b","y"," ","t","h","e"," ","b","o","a","r","d">> >>,
    << <<"J","u","r","i","s","d","i","c","t","i","o","n",":"," ","A","D","G","M">>, <<"t","h","e"," ","s","i","g","n","a","t","o","r","i","e","s"," ","a","g","r","e","e">> >>,
    << >> }

RuleInit == RuleIdle /\ MainIdle /\ NormIdle

\* a document, its type and the rule set are given
RuleLoad ==
    /\ r_pc \in {"idle", "evaluated"}
    /\ \E d \in RuleDocs, dt \in DocTypes, rs \in RuleFiles :
         /\ r_raw' = d
         /\ r_type' = dt
         /\ r_rules' = rs
    /\ r_signed' = FALSE
    /\ r_missing' = Returned(<<>>)
    /\ r_flags' = <<>>
    /\ r_pc' = "loaded"
    /\ UNCHANGED <<mainVars, normVars>>

\* "Signature:" is added to the text: as a paragraph of its own at any
\* position, or at the end of any paragraph
RuleAddSignature ==
    /\ r_pc = "loaded"
    /\ ~ r_signed
    /\ \/ \E p \in 0..Len(r_raw) :
            r_raw' = SubSeq(r_raw, 1, p) \o << <<"S","i","g","n","a","t","u","r","e",":">> >>
                     \o SubSeq(r_raw, p + 1, Len(r_raw))
       \/ \E p \in 1..Len(r_raw) :
            r_raw' = [r_raw EXCEPT ![p] = @ \o <<" ","S","i","g","n","a","t","u","r","e",":">>]
    /\ r_signed' = TRUE
    /\ UNCHANGED <<r_pc, r_type, r_rules, r_missing, r_flags, mainVars, normVars>>

\* main.py steps 2 and 4 on the given document
RuleEvaluate ==
    /\ r_pc = "loaded"
    /\ LET info == extract_text_and_sections(r_raw)
       IN /\ r_missing' = check_required_clauses(info, r_type, r_rules)
          /\ r_flags' = find_red_flags(info, r_type)
    /\ r_pc' = "evaluated"
    /\ UNCHANGED <<r_raw, r_type, r_rules, r_signed, mainVars, normVars>>

RuleNext == RuleLoad \/ RuleAddSignature \/ RuleEvaluate

SpecRules == RuleInit /\ [][RuleNext]_vars

(***************************************************************************)
(* main.analyze_files                                                      *)
(***************************************************************************)
\* d.get(k, default) on a record
dict_get(d, k, default) == IF k \in DOMAIN d THEN d[k] ELSE default

\* the per-file locals as they are before a file is taken up
FileIdle ==
    /\ file_path' = <<>> /\ name_type' = <<>> /\ content_calls' = 0
    /\ doc_type' = <<>> /\ doc_info' = [paragraphs |-> <<>>, full_text |-> <<>>]
    /\ missing_clauses' = <<>> /\ red_flags' = <<>> /\ file_issues' = <<>>
    /\ ai_suggestions' = JList(<<>>) /\ issue_keys_current' = <<>> /\ sug_pos' = 0
    /\ seen_comments' = {} /\ doc' = <<>> /\ ann_calls' = <<>>

\* an exception nothing catches leaves analyze_files
Abort(e) ==
    /\ pc' = "aborted"
    /\ exc' = e

\* "if not file_paths": the message is returned, nothing is processed
NoFiles ==
    /\ pc = "start"
    /\ pc' = "no_files"
    /\ UNCHANGED <<exc, rules, ai_active, files_done, fileVars, ruleVars, normVars>>

\* rules = load_rules(); ai_active = bool(use_ai and OPENAI_API_KEY)
LoadRules ==
    /\ pc = "start"
    /\ \E rs \in RuleFiles : rules' = rs
    /\ \E use_ai \in BOOLEAN, have_key \in BOOLEAN : ai_active' = (use_ai /\ have_key)
    /\ pc' = "loop"
    /\ UNCHANGED <<exc, files_done, fileVars, ruleVars, normVars>>

\* faulty variant: the content heuristic is consulted for every file and its
\* answer taken
BeginFile_content_decides ==
    /\ pc = "loop"
    /\ files_done < MaxFiles
    /\ \E f \in Files :
         LET info == extract_text_and_sections(f.raw)
         IN /\ file_path' = f.path
            /\ name_type' = infer_doc_type_from_filename(f.path)
            /\ doc_info' = info
            /\ doc' = [i \in 1..Len(f.raw) |-> [text |-> f.raw[i], runs |-> <<>>]]
            /\ doc_type' = infer_doc_type_from_text(info.full_text)
            /\ content_calls' = 1
    /\ pc' = "rules"
    /\ UNCHANGED <<exc, rules, ai_active, files_done, missing_clauses, red_flags,
                   file_issues, ai_suggestions, issue_keys_current, sug_pos,
                   seen_comments, ann_calls, ruleVars, normVars>>

\* steps 1-3 for the next file of file_paths: type by name, extraction,
\* type by content when the name gave "Unknown"
BeginFile ==
    /\ pc = "loop"
    /\ files_done < MaxFiles
    /\ \E f \in Files :
         LET by_name == infer_doc_type_from_filename(f.path)
             info == extract_text_and_sections(f.raw)
         IN /\ file_path' = f.path
            /\ name_type' = by_name
            /\ doc_info' = info
            /\ doc' = [i \in 1..Len(f.raw) |-> [text |-> f.raw[i], runs |-> <<>>]]
            /\ IF by_name = UNKNOWN
               THEN /\ doc_type' = infer_doc_type_from_text(info.full_text)
                    /\ content_calls' = 1
               ELSE /\ doc_type' = by_name
                    /\ content_calls' = 0
    /\ pc' = "rules"
    /\ UNCHANGED <<exc, rules, ai_active, files_done, missing_clauses, red_flags,
                   file_issues, ai_suggestions, issue_keys_current, sug_pos,
                   seen_comments, ann_calls, ruleVars, normVars>>

\* steps 4-5: the rule engine and the findings it gives
RunRules ==
    /\ pc = "rules"
    /\ LET checked == check_required_clauses(doc_info, doc_type, rules)
       IN IF checked.raised
          THEN /\ Abort(checked.exc)
               /\ UNCHANGED <<missing_clauses, red_flags, file_issues>>
          ELSE LET flags == find_red_flags(doc_info, doc_type)
               IN /\ missing_clauses' = checked.value
                  /\ red_flags' = flags
                  /\ file_issues' = build_issue_report(doc_type, checked.value, flags)
                  /\ pc' = "ai"
                  /\ exc' = exc
    /\ UNCHANGED <<rules, ai_active, files_done, file_path, name_type, content_calls,
                   doc_type, doc_info, ai_suggestions, issue_keys_current, sug_pos,
                   seen_comments, doc, ann_calls, ruleVars, normVars>>

\* step 6 up to the merge loop: the call of the suggestion service inside
\* try/except (with len() and the slice of the debug prints), then the keys
\* of the current findings when there is something to merge
FetchSuggestions ==
    /\ pc = "ai"
    /\ IF ai_active
       THEN \E reply \in Replies, top_refs \in TopRefs :
              LET got == generate_ai_suggestions_for_file(reply, top_refs)
              IN ai_suggestions' =
                    IF got.raised THEN JList(<<>>)
                    \* len(None), len(5) and the slice of a dict raise
                    ELSE IF got.value.t \in {"null", "num", "dict"} THEN JList(<<>>)
                    ELSE got.value
       ELSE ai_suggestions' = JList(<<>>)
    /\ pc' = IF ai_active /\ truthy(ai_suggestions') THEN "merge" ELSE "annotate"
    /\ issue_keys_current' =
          IF pc' = "merge"
          THEN [i \in 1..Len(file_issues) |-> normalize_issue_key(file_issues[i].issue)]
          ELSE issue_keys_current
    /\ sug_pos' = 0
    /\ UNCHANGED <<exc, rules, ai_active, files_done, file_path, name_type,
                   content_calls, doc_type, doc_info, missing_clauses, red_flags,
                   file_issues, seen_comments, doc, ann_calls, ruleVars, normVars>>

\* faulty variant: the keys are compared for equality
RECURSIVE first_match_equal_keys(_, _, _, _)
first_match_equal_keys(issues, keys, sug_key, i) ==
    IF i > Len(issues) THEN 0
    ELSE IF i > Len(keys) THEN -1
    ELSE IF Len(sug_key) > 0 /\ Len(keys[i]) > 0 /\ sug_key = keys[i]
         THEN i
         ELSE first_match_equal_keys(issues, keys, sug_key, i + 1)

\* the inner "for idx, issue in enumerate(file_issues)": the 1-based
\* position of the first finding whose key matches, 0 when none does, -1
\* when issue_keys_current[idx] is read past its end
RECURSIVE first_match(_, _, _, _)
first_match(issues, keys, sug_key, i) ==
    IF i > Len(issues) THEN 0
    ELSE IF i > Len(keys) THEN -1
    ELSE IF Len(sug_key) > 0 /\ Len(keys[i]) > 0
            /\ (str_in(sug_key, keys[i]) \/ str_in(keys[i], sug_key))
         THEN i
         ELSE first_match(issues, keys, sug_key, i + 1)

\* the three fields a matched finding receives
enrich(issue, sug) ==
    [suggestion_ai |-> dict_get(sug, "suggestion", <<>>),
     rationale_ai |-> dict_get(sug, "rationale", <<>>),
     citation_label |-> dict_get(sug, "citation_label", <<>>)] @@ issue

\* the finding appended for an unmatched suggestion
standalone(dt, sug_issue_raw, sug) ==
    [document |-> dt, section |-> <<"N","/","A">>,
     issue |-> IF Len(sug_issue_raw) > 0 THEN sug_issue_raw
               ELSE <<"A","I","-","s","u","g","g","e","s","t","e","d"," ","i","m","p","r","o","v","e","m","e","n","t">>,
     severity |-> "Medium", suggestion |-> <<>>,
     suggestion_ai |-> dict_get(sug, "suggestion", <<>>),
     rationale_ai |-> dict_get(sug, "rationale", <<>>),
     citation_label |-> dict_get(sug, "citation_label", <<>>)]

\* (sug.get("issue") or "").strip()
sug_issue_of(sug) == str_strip(dict_get(sug, "issue", <<>>))

\* faulty variant: a matched finding is taken out and put back, enriched, at the end
merge_one_moving_match(issues, keys, dt, item) ==
    IF item.t # "dict" THEN Raised("AttributeError")
    ELSE LET sug == item.m
             sug_issue_raw == sug_issue_of(sug)
             sug_key == normalize_issue_key(sug_issue_raw)
         IN IF ~ doc_type_accepts_issue_key(dt, sug_key) THEN Returned(issues)
            ELSE LET hit == first_match(issues, keys, sug_key, 1)
                 IN IF hit = -1 THEN Raised("IndexError")
                    ELSE IF hit > 0
                    THEN Returned(Append(SubSeq(issues, 1, hit - 1)
                                            \o SubSeq(issues, hit + 1, Len(issues)),
                                         enrich(issues[hit], sug)))
                    ELSE Returned(Append(issues, standalone(dt, sug_issue_raw, sug)))

\* file_issues after one suggestion: [raised, exc] or [raised, value]
merge_one(issues, keys, dt, item) ==
    IF item.t # "dict" THEN Raised("AttributeError")      \* no .get
    ELSE LET sug == item.m
             sug_issue_raw == sug_issue_of(sug)
             sug_key == normalize_issue_key(sug_issue_raw)
         IN IF ~ doc_type_accepts_issue_key(dt, sug_key) THEN Returned(issues)
            ELSE LET hit == first_match(issues, keys, sug_key, 1)
                 IN IF hit = -1 THEN Raised("IndexError")
                    ELSE IF hit > 0
                    THEN Returned([issues EXCEPT ![hit] = enrich(@, sug)])
                    ELSE Returned(Append(issues, standalone(dt, sug_issue_raw, sug)))

\* one iteration of "for sug in ai_suggestions"
MergeSuggestion ==
    /\ pc = "merge"
    /\ LET items == items_of(ai_suggestions)
           merged == merge_one(file_issues, issue_keys_current, doc_type,
                               items[sug_pos + 1])
       IN IF merged.raised
          THEN /\ Abort(merged.exc)
               /\ UNCHANGED <<file_issues, sug_pos>>
          ELSE /\ file_issues' = merged.value
               /\ sug_pos' = sug_pos + 1
               /\ pc' = IF sug_pos + 1 = Len(items) THEN "annotate" ELSE "merge"
               /\ exc' = exc
    /\ UNCHANGED <<rules, ai_active, files_done, file_path, name_type, content_calls,
                   doc_type, doc_info, missing_clauses, red_flags, ai_suggestions,
                   issue_keys_current, seen_comments, doc, ann_calls, ruleVars,
                   normVars>>

\* faulty variant: the hits are not looked at, the last paragraph is taken
target_of_last_paragraph(hit_idxs, paragraphs) ==
    Max(0, Len(paragraphs) - 1)

\* hit_idxs[0] if hit_idxs else max(0, len(paragraphs) - 1)
target_of(hit_idxs, paragraphs) ==
    IF Len(hit_idxs) > 0 THEN hit_idxs[1] ELSE Max(0, Len(paragraphs) - 1)

\* faulty variant: the call is made without looking at seen_comments
write_comment_unguarded(acc, target_idx, comment_text, highlight, source, item) ==
    [seen |-> acc.seen \cup {<<target_idx, str_strip(str_lower(comment_text))>>},
     doc |-> annotate_paragraph(acc.doc, target_idx, comment_text, highlight),
     calls |-> Append(acc.calls,
                      [idx |-> target_idx, comment |-> comment_text,
                       highlight |-> highlight, source |-> source, item |-> item])]

\* the dedup guard around every annotate_paragraph call: acc is
\* [seen, doc, calls]; source and item say which finding asked for the call
write_comment(acc, target_idx, comment_text, highlight, source, item) ==
    LET key == <<target_idx, str_strip(str_lower(comment_text))>>
    IN IF key \in acc.seen THEN acc
       ELSE [seen |-> acc.seen \cup {key},
             doc |-> annotate_paragraph(acc.doc, target_idx, comment_text, highlight),
             calls |-> Append(acc.calls,
                              [idx |-> target_idx, comment |-> comment_text,
                               highlight |-> highlight, source |-> source,
                               item |-> item])]

\* "for clause in missing_clauses"
RECURSIVE annotate_clauses(_, _, _, _)
annotate_clauses(clauses, paragraphs, i, acc) ==
    IF i > Len(clauses) THEN acc
    ELSE LET hit_idxs == find_paragraph_indexes(clauses[i], paragraphs)
             target_idx == target_of(hit_idxs, paragraphs)
             comment_text == <<"M","i","s","s","i","n","g"," ","r","e","q","u","i","r","e","d"," ","c","l","a","u","s","e",":"," ">> \o clauses[i]
         IN annotate_clauses(clauses, paragraphs, i + 1,
                write_comment(acc, target_idx, comment_text, "YELLOW", "clause", i))

\* "for rf in red_flags"
RECURSIVE annotate_flags(_, _, _, _)
annotate_flags(flags, paragraphs, i, acc) ==
    IF i > Len(flags) THEN acc
    ELSE LET match == flags[i].match
             hit_idxs == IF Len(match) > 0
                         THEN find_paragraph_indexes(match, paragraphs) ELSE <<>>
             target_idx == target_of(hit_idxs, paragraphs)
             comment_text == <<"R","e","d"," ","f","l","a","g",":"," ">> \o flags[i].issue
         IN annotate_flags(flags, paragraphs, i + 1,
                write_comment(acc, target_idx, comment_text, "RED", "flag", i))

\* raw_issue.split(":")[0]
before_colon(s) ==
    LET colons == {i \in 1..Len(s) : s[i] = ":"}
    IN IF colons = {} THEN s
       ELSE SubSeq(s, 1, (CHOOSE i \in colons : \A j \in colons : i <= j) - 1)

\* "for sug in ai_suggestions" of the annotation pass (every element is a
\* record here: the merge loop has read each of them with .get)
RECURSIVE annotate_suggestions(_, _, _, _)
annotate_suggestions(items, paragraphs, i, acc) ==
    IF i > Len(items) THEN acc
    ELSE LET sug == items[i].m
             raw_issue == dict_get(sug, "issue", <<>>)
             key_phrase == str_strip(before_colon(raw_issue))
             idxs == IF Len(key_phrase) > 0
                     THEN find_paragraph_indexes(key_phrase, paragraphs) ELSE <<>>
             tgt == target_of(idxs, paragraphs)
             tag == dict_get(sug, "citation_label", <<"A","D","G","M"," ","R","e","f","e","r","e","n","c","e">>)
             comment == <<"A","I"," ","S","u","g","g","e","s","t","i","o","n",":"," ">> \o dict_get(sug, "suggestion", <<>>)
                        \o (IF Len(tag) > 0 THEN <<" ","|"," ","S","o","u","r","c","e",":"," ">> \o tag ELSE <<>>)
         IN annotate_suggestions(items, paragraphs, i + 1,
                write_comment(acc, tgt, comment, "YELLOW", "ai", i))

\* step 7: seen_comments starts empty, then the three annotation loops
AnnotateFile ==
    /\ pc = "annotate"
    /\ LET paragraphs == doc_info.paragraphs
           a0 == [seen |-> {}, doc |-> doc, calls |-> <<>>]
           a1 == annotate_clauses(missing_clauses, paragraphs, 1, a0)
           a2 == annotate_flags(red_flags, paragraphs, 1, a1)
           a3 == IF truthy(ai_suggestions)
                 THEN annotate_suggestions(items_of(ai_suggestions), paragraphs, 1, a2)
                 ELSE a2
       IN /\ seen_comments' = a3.seen
          /\ doc' = a3.doc
          /\ ann_calls' = a3.calls
    /\ pc' = "save"
    /\ UNCHANGED <<exc, rules, ai_active, files_done, file_path, name_type,
                   content_calls, doc_type, doc_info, missing_clauses, red_flags,
                   file_issues, ai_suggestions, issue_keys_current, sug_pos,
                   ruleVars, normVars>>

\* save_reviewed_copy and the summary line; the loop goes on with the next
\* file, whose locals are all assigned anew before they are read
SaveFile ==
    /\ pc = "save"
    /\ files_done' = files_done + 1
    /\ FileIdle
    /\ pc' = "loop"
    /\ UNCHANGED <<exc, rules, ai_active, ruleVars, normVars>>

\* file_paths is exhausted: the summary, the report and the package
Finish ==
    /\ pc = "loop"
    /\ files_done >= 1
    /\ pc' = "done"
    /\ UNCHANGED <<exc, rules, ai_active, files_done, fileVars, ruleVars, normVars>>

(***************************************************************************)
(* The reconciliation of one file's findings with given suggestions        *)
(***************************************************************************)
\* a rule set whose keywords the documents below lack
MergeRules ==
    [clauses_per_doc |-> JDict(
        (AOA :> JList(<< <<"S","i","g","n","a","t","o","r","i","e","s">>, <<"M","i","s","s","i","n","g"," ","s","i","g","n","a","t","o","r","i","e","s"," ","s","e","c","t","i","o","n">> >>))
     @@ (REG :> JList(<< <<"M","i","s","s","i","n","g"," ","s","i","g","n","a","t","o","r","i","e","s"," ","s","e","c","t","i","o","n">>, <<"S","h","a","r","e"," ","c","a","p","i","t","a","l">> >>)))]

\* documents with the type analyze_files inferred for them
MergeDocs == {
    [type |-> AOA,
     raw |-> << <<"A","r","t","i","c","l","e","s"," ","o","f"," ","A","s","s","o","c","i","a","t","i","o","n">>, <<"T","h","e"," ","c","o","m","p","a","n","y"," ","m","a","y"," ","c","o","n","s","i","d","e","r"," ","d","i","v","i","d","e","n","d","s">> >>],
    [type |-> AOA,
     raw |-> << <<"A","r","t","i","c","l","e","s"," ","o","f"," ","A","s","s","o","c","i","a","t","i","o","n">>, <<"S","i","g","n","e","d"," ","i","n"," ","A","b","u"," ","D","h","a","b","i">> >>],
    [type |-> REG,
     raw |-> << <<"R","e","g","i","s","t","e","r"," ","o","f"," ","M","e","m","b","e","r","s">>, <<"D","i","r","e","c","t","o","r","s"," ","w","h","e","r","e"," ","p","o","s","s","i","b","l","e">> >>] }

SugConsider ==
    [t |-> "dict",
     m |-> [issue |-> <<"C","o","m","p","a","n","y"," ","m","a","y"," ","c","o","n","s","i","d","e","r"," ","w","h","e","r","e"," ","p","o","s","s","i","b","l","e">>,
            suggestion |-> <<"U","s","e"," ","s","h","a","l","l">>, rationale |-> <<"N","o","n","-","b","i","n","d","i","n","g">>,
            citation_label |-> <<"A","D","G","M"," ","R","e","g","s">>]]
SugSignatoriesMissing ==
    [t |-> "dict",
     m |-> [issue |-> <<"s","i","g","n","a","t","o","r","i","e","s"," ","m","i","s","s","i","n","g">>, suggestion |-> <<"A","d","d"," ","a"," ","s","i","g","n","a","t","u","r","e"," ","b","l","o","c","k">>,
            rationale |-> <<"U","n","s","i","g","n","e","d">>, citation_label |-> <<"A","D","G","M"," ","R","e","g","s">>]]
SugAmbiguous ==
    [t |-> "dict",
     m |-> [issue |-> <<"A","m","b","i","g","u","o","u","s"," ","l","a","n","g","u","a","g","e">>, suggestion |-> <<"U","s","e"," ","m","u","s","t">>]]
SugCapital ==
    [t |-> "dict",
     m |-> [issue |-> <<"S","h","a","r","e"," ","c","a","p","i","t","a","l">>, suggestion |-> <<"S","e","t"," ","o","u","t"," ","t","h","e"," ","s","h","a","r","e"," ","c","a","p","i","t","a","l">>,
            rationale |-> <<"R","e","q","u","i","r","e","d">>, citation_label |-> <<"A","D","G","M"," ","R","e","g","s">>]]
MergeSugItems ==
    {SugConsider, SugSignatoriesMissing, SugAmbiguous, SugShareCapital, SugCapital}

MergeSugLists == UNION { [1..k -> MergeSugItems] : k \in 1..MaxSugs }

\* main.py steps 2 to 6 for a document of known type, up to the merge loop:
\* the findings of the rule engine, the suggestions received, the keys of
\* the findings
MergeLoad ==
    /\ pc = "start"
    /\ \E d \in MergeDocs, l \in MergeSugLists :
         LET info == extract_text_and_sections(d.raw)
             checked == check_required_clauses(info, d.type, MergeRules)
             flags == find_red_flags(info, d.type)
             issues == build_issue_report(d.type, checked.value, flags)
         IN /\ rules' = MergeRules
            /\ doc_type' = d.type
            /\ doc_info' = info
            /\ missing_clauses' = checked.value
            /\ red_flags' = flags
            /\ file_issues' = issues
            /\ ai_suggestions' = JList(l)
            /\ issue_keys_current' =
                  [i \in 1..Len(issues) |-> normalize_issue_key(issues[i].issue)]
    /\ ai_active' = TRUE
    /\ sug_pos' = 0
    /\ pc' = "merge"
    /\ UNCHANGED <<exc, files_done, file_path, name_type, content_calls,
                   seen_comments, doc, ann_calls, ruleVars, normVars>>

MergeInit == MainIdle /\ RuleIdle /\ NormIdle

MergeNext == MergeLoad \/ MergeSuggestion

SpecMerge == MergeInit /\ [][MergeNext]_vars

Init == MainIdle /\ RuleIdle /\ NormIdle

Next ==
    \/ NoFiles
    \/ LoadRules
    \/ BeginFile
    \/ RunRules
    \/ FetchSuggestions
    \/ MergeSuggestion
    \/ AnnotateFile
    \/ SaveFile
    \/ Finish

Spec == Init /\ [][Next]_vars

(***************************************************************************)
(* Properties                                                              *)
(***************************************************************************)
\* the suggestion the merge loop takes up next / has just processed
NextSug == items_of(ai_suggestions)[sug_pos + 1]
LastSug == items_of(ai_suggestions)[sug_pos]

\* a normalized key that is empty or holds no token of the type's allow-list
Inapplicable(dt, key) ==
    Len(key) = 0 \/ \A tok \in allow_list(dt) : ~ str_in(tok, key)

KeyOfSug(item) == normalize_issue_key(str_strip(dict_get(item.m, "issue", <<>>)))

\* the rule-derived part of a finding
Core(f) == [document |-> f.document, section |-> f.section, issue |-> f.issue,
            severity |-> f.severity, suggestion |-> f.suggestion]

\* the findings the rule engine gave for the current file
RuleFindings == build_issue_report(doc_type, missing_clauses, red_flags)

\* C1: normalization is idempotent -- applying normalize_issue_key to a key
\* it produced returns that key unchanged.
C1_NormalizeIdempotent == (n_applied = 2) => (n_x = n_prev)

\* C2: reconciliation never removes or reorders the findings that existed
\* before it -- at every point of the merge and after it, the rule-engine
\* findings are a prefix of file_issues, each with its rule-derived fields
\* intact, so the count never decreases.
C2_FindingsKept ==
    pc \in {"ai", "merge", "annotate", "save", "aborted"} =>
        /\ Len(file_issues) >= Len(RuleFindings)
        /\ \A i \in 1..Len(RuleFindings) : Core(file_issues[i]) = RuleFindings[i]

\* a merge that both enriched an old finding and appended a new one
C2_Witness ==
    /\ pc = "annotate"
    /\ Len(RuleFindings) >= 2
    /\ Len(file_issues) > Len(RuleFindings)
    /\ \E i \in 1..Len(RuleFindings) : "suggestion_ai" \in DOMAIN file_issues[i]

\* C3: every applicable suggestion that matches no existing finding is
\* appended as a standalone finding with severity Medium and an empty
\* rule-derived suggestion, the second such suggestion like the first.
C3_UnmatchedAppended ==
    [][ (/\ pc = "merge"
         /\ NextSug.t = "dict"
         /\ ~ Inapplicable(doc_type, KeyOfSug(NextSug))
         /\ \A i \in 1..Len(file_issues) :
               LET k == normalize_issue_key(file_issues[i].issue)
               IN ~ (Len(k) > 0 /\ (str_in(k, KeyOfSug(NextSug))
                                    \/ str_in(KeyOfSug(NextSug), k))))
        => (/\ Len(file_issues') = Len(file_issues) + 1
            /\ SubSeq(file_issues', 1, Len(file_issues)) = file_issues
            /\ file_issues'[Len(file_issues')].severity = "Medium"
            /\ file_issues'[Len(file_issues')].suggestion = <<>>) ]_vars

\* C4: whatever the suggestion service answers, the document's pass is not
\* left by an exception -- no step from the fetch or the merge aborts
\* analyze_files.
C4_SuggestionsNeverAbort ==
    [][ (pc \in {"ai", "merge"}) => (pc' # "aborted") ]_vars

\* C5: a suggestion that is not applicable to the document's type gets no
\* annotation on the document -- every annotate_paragraph call made for a
\* suggestion is for an applicable one.
C5_InapplicableNotAnnotated ==
    pc = "save" =>
        \A c \in 1..Len(ann_calls) :
            ann_calls[c].source = "ai" =>
                ~ Inapplicable(doc_type,
                               KeyOfSug(items_of(ai_suggestions)[ann_calls[c].item]))

\* C6: a suggestion whose normalized key is empty or holds no allow-list
\* token of the document's type leaves the findings list unchanged.
C6_InapplicableIgnored ==
    [][ (/\ pc = "merge"
         /\ NextSug.t = "dict"
         /\ Inapplicable(doc_type, KeyOfSug(NextSug)))
        => file_issues' = file_issues ]_vars

\* an inapplicable suggestion has just been processed on a file with
\* findings, and the merge went on
C6_Witness ==
    /\ pc \in {"merge", "annotate"}
    /\ sug_pos >= 1
    /\ Len(file_issues) >= 1
    /\ Inapplicable(doc_type, KeyOfSug(LastSug))
    /\ Len(KeyOfSug(LastSug)) > 0

\* <<paragraph index, case-folded and trimmed comment>> of a call
CallKey(c) == <<c.idx, str_strip(str_lower(c.comment))>>

\* C7: within one file's annotation pass no two annotate_paragraph calls
\* have the same (paragraph index, case-folded trimmed comment) pair, and
\* the committed pairs are exactly those of this file's calls (the set
\* starts empty for each file).
C7_NoDuplicateAnnotation ==
    /\ \A i, j \in 1..Len(ann_calls) :
          i # j => CallKey(ann_calls[i]) # CallKey(ann_calls[j])
    /\ seen_comments = {CallKey(ann_calls[i]) : i \in 1..Len(ann_calls)}
    /\ pc \in {"rules", "ai", "merge", "annotate"} => seen_comments = {}

\* an annotation pass in which a clause comment and a suggestion comment
\* were both held back as duplicates
C7_Witness ==
    /\ pc = "save"
    /\ \E i, j \in 1..Len(missing_clauses) :
          /\ i < j
          /\ str_lower(missing_clauses[i]) = str_lower(missing_clauses[j])
    /\ Len(items_of(ai_suggestions)) = 2
    /\ Cardinality({c \in 1..Len(ann_calls) : ann_calls[c].source = "ai"}) = 1
    /\ Len(ann_calls) >= 3

\* the rule set's entry for the type, as check_required_clauses' caller
\* wrote it: "absent" when there is none
EntryOf(rs, dt) ==
    IF "clauses_per_doc" \notin DOMAIN rs THEN [t |-> "absent"]
    ELSE IF rs.clauses_per_doc.t # "dict" THEN [t |-> "no mapping"]
    ELSE IF dt \notin DOMAIN rs.clauses_per_doc.m THEN [t |-> "absent"]
    ELSE rs.clauses_per_doc.m[dt]

\* C8: with a missing or malformed entry for the type (absent, null, no
\* list, or a clauses mapping that is no mapping) check_required_clauses
\* returns the empty list and does not raise.
C8_MalformedGivesEmpty ==
    (r_pc = "evaluated" /\ EntryOf(r_rules, r_type).t # "list")
        => r_missing = Returned(<<>>)

\* the keywords of ks, from position i on, for which Missing holds
RECURSIVE FilterFrom(_, _, _)
FilterFrom(ks, i, keep) ==
    IF i > Len(ks) THEN <<>>
    ELSE (IF keep[i] THEN <<ks[i]>> ELSE <<>>) \o FilterFrom(ks, i + 1, keep)

RuleText == str_lower(extract_text_and_sections(r_raw).full_text)

\* C9 as stated: the result is exactly the required keywords that are no
\* case-insensitive substring of the full text, in rule-set order.
C9_KeywordsAsWritten ==
    (r_pc = "evaluated" /\ EntryOf(r_rules, r_type).t = "list") =>
        LET ks == EntryOf(r_rules, r_type).items
        IN r_missing = Returned(FilterFrom(ks, 1,
                          [i \in 1..Len(ks) |-> ~ str_in(str_lower(ks[i]), RuleText)]))

\* C9 (amended): for a list entry, the result is, in rule-set order, the
\* trimmed form of exactly those keywords whose trimmed form is non-empty
\* and no case-insensitive substring of the full text; a keyword present in
\* the text in any case is never returned.
C9_TrimmedKeywords ==
    (r_pc = "evaluated" /\ EntryOf(r_rules, r_type).t = "list") =>
        LET ks == EntryOf(r_rules, r_type).items
            trimmed == [i \in 1..Len(ks) |-> str_strip(ks[i])]
        IN /\ r_missing = Returned(FilterFrom(trimmed, 1,
                            [i \in 1..Len(ks) |->
                                /\ Len(trimmed[i]) > 0
                                /\ ~ str_in(str_lower(trimmed[i]), RuleText)]))
           /\ \A m \in 1..Len(r_missing.value) :
                 ~ str_in(str_lower(r_missing.value[m]), RuleText)

\* a list entry of which one keyword is in the text in another case (and
\* is held back) and another is missing (and is returned)
C9_Witness ==
    /\ r_pc = "evaluated"
    /\ EntryOf(r_rules, r_type).t = "list"
    /\ LET ks == EntryOf(r_rules, r_type).items
           text == extract_text_and_sections(r_raw).full_text
       IN \E i \in 1..Len(ks) :
             /\ ~ str_in(ks[i], text)
             /\ str_in(str_lower(ks[i]), RuleText)
    /\ Len(r_missing.value) >= 2

SignatoryFlags == {i \in 1..Len(r_flags) :
                      r_flags[i].issue = <<"A","p","p","e","a","r","s"," ","t","o"," ","b","e"," ","m","i","s","s","i","n","g"," ","s","i","g","n","a","t","o","r","y"," ","s","e","c","t","i","o","n">>}

\* C10: for a signature-bearing type whose text holds neither "sign" nor
\* "signature" in any case, find_red_flags returns the missing-signatory
\* flag exactly once, with severity High; once "Signature:" was added to the
\* text, or for a type that is not signature-bearing ("Unknown" included),
\* the flag is absent.
C10_SignatoryFlag ==
    r_pc = "evaluated" =>
        /\ (r_type \in requires_signature /\ ~ str_in(<<"s","i","g","n">>, RuleText)
                                          /\ ~ str_in(<<"s","i","g","n","a","t","u","r","e">>, RuleText))
              => /\ Cardinality(SignatoryFlags) = 1
                 /\ \A i \in SignatoryFlags : r_flags[i].severity = "High"
        /\ (r_signed \/ r_type \notin requires_signature \/ r_type = UNKNOWN)
              => SignatoryFlags = {}

\* a signature-bearing document without any "sign" got the flag
C10_Witness ==
    /\ r_pc = "evaluated"
    /\ r_type \in requires_signature
    /\ Len(r_raw) >= 2
    /\ ~ str_in(<<"s","i","g","n">>, RuleText)
    /\ Cardinality(SignatoryFlags) = 1

(***************************************************************************)
(* End-to-end scenarios and the annotation targets                         *)
(***************************************************************************)
FullTextLower == str_lower(doc_info.full_text)

\* the index the callers fall back to
LastIndex == Max(0, Len(doc_info.paragraphs) - 1)

\* the 0-based indexes of the extracted paragraphs that hold snippet, in
\* any case
HitIndexes(snippet) ==
    {i \in 0..(Len(doc_info.paragraphs) - 1) :
        str_in(str_lower(snippet), str_lower(doc_info.paragraphs[i + 1]))}

FirstOf(S) == CHOOSE i \in S : \A j \in S : i <= j

JurisdictionFlags ==
    {i \in 1..Len(file_issues) :
        file_issues[i].issue = <<"R","e","f","e","r","e","n","c","e","s"," ","U","A","E"," ","F","e","d","e","r","a","l"," ","C","o","u","r","t"," ","i","n","s","t","e","a","d"," ","o","f"," ","A","D","G","M">>}

SignatoriesFindings ==
    {i \in 1..Len(file_issues) :
        file_issues[i].issue = <<"M","i","s","s","i","n","g"," ","r","e","q","u","i","r","e","d"," ","c","l","a","u","s","e",":"," ","S","i","g","n","a","t","o","r","i","e","s">>}

\* scenario 1 after its annotation pass: Articles of Association, "UAE
\* Federal Court" in the text, no "Signatories" in it, "Signatories" required
Scenario1 ==
    /\ pc = "save"
    /\ doc_type = AOA
    /\ str_in(<<"u","a","e"," ","f","e","d","e","r","a","l"," ","c","o","u","r","t">>, FullTextLower)
    /\ ~ str_in(<<"s","i","g","n","a","t","o","r","i","e","s">>, FullTextLower)
    /\ EntryOf(rules, AOA).t = "list"
    /\ \E i \in 1..Len(EntryOf(rules, AOA).items) :
          EntryOf(rules, AOA).items[i] = <<"S","i","g","n","a","t","o","r","i","e","s">>

Scenario1Findings ==
    /\ Cardinality(JurisdictionFlags) = 1
    /\ \A i \in JurisdictionFlags : file_issues[i].severity = "High"
    /\ Cardinality(SignatoriesFindings) = 1

\* the paragraph indexes on which a comment (case-folded) was written
TargetsOf(comment) == {k[1] : k \in {s \in seen_comments : s[2] = comment}}

\* C11 as stated: in scenario 1 the findings hold one High wrong-jurisdiction
\* flag and one missing-clause finding for "Signatories", and both are
\* annotated on the last paragraph index.
C11_BothOnLastParagraph ==
    Scenario1 =>
        /\ Scenario1Findings
        /\ TargetsOf(<<"m","i","s","s","i","n","g"," ","r","e","q","u","i","r","e","d"," ","c","l","a","u","s","e",":"," ","s","i","g","n","a","t","o","r","i","e","s">>) = {LastIndex}
        /\ TargetsOf(<<"r","e","d"," ","f","l","a","g",":"," ","r","e","f","e","r","e","n","c","e","s"," ","u","a","e"," ","f","e","d","e","r","a","l"," ","c","o","u","r","t"," ","i","n","s","t","e","a","d"," ","o","f"," ","a","d","g","m">>)
              = {LastIndex}

\* C11 (amended): in scenario 1 the findings hold one High wrong-jurisdiction
\* flag and one missing-clause finding for "Signatories"; the missing clause
\* is annotated on the last paragraph index, the flag on the first paragraph
\* that holds "UAE Federal Court" in any case.
C11_FlagOnItsParagraph ==
    Scenario1 =>
        /\ Scenario1Findings
        /\ TargetsOf(<<"m","i","s","s","i","n","g"," ","r","e","q","u","i","r","e","d"," ","c","l","a","u","s","e",":"," ","s","i","g","n","a","t","o","r","i","e","s">>) = {LastIndex}
        /\ TargetsOf(<<"r","e","d"," ","f","l","a","g",":"," ","r","e","f","e","r","e","n","c","e","s"," ","u","a","e"," ","f","e","d","e","r","a","l"," ","c","o","u","r","t"," ","i","n","s","t","e","a","d"," ","o","f"," ","a","d","g","m">>)
              = {FirstOf(HitIndexes(<<"U","A","E"," ","F","e","d","e","r","a","l"," ","C","o","u","r","t">>))}

\* scenario 1 on a document whose "UAE Federal Court" paragraph is not the
\* last one
C11_Witness ==
    /\ Scenario1
    /\ FirstOf(HitIndexes(<<"U","A","E"," ","F","e","d","e","r","a","l"," ","C","o","u","r","t">>)) < LastIndex
    /\ Len(ann_calls) >= 2

\* the advisory fields of finding f are those of suggestion item
EnrichedBy(f, item) ==
    /\ "suggestion_ai" \in DOMAIN f
    /\ f.suggestion_ai = dict_get(item.m, "suggestion", <<>>)
    /\ f.rationale_ai = dict_get(item.m, "rationale", <<>>)
    /\ f.citation_label = dict_get(item.m, "citation_label", <<>>)

AmbiguityFindings ==
    {i \in 1..Len(file_issues) :
        file_issues[i].issue = <<"A","m","b","i","g","u","o","u","s"," ","o","r"," ","n","o","n","-","b","i","n","d","i","n","g"," ","l","a","n","g","u","a","g","e">>}

\* C12: scenario 2 -- the suggestion "Company may consider where possible"
\* is dropped for a Register of Members and Directors document, and on an
\* Articles of Association document with an "Ambiguous or non-binding
\* language" finding it enriches that finding.
C12_ConsiderScenario ==
    [][ (pc = "merge" /\ NextSug = SugConsider) =>
          /\ (doc_type = REG) => (file_issues' = file_issues /\ pc' # "aborted")
          /\ (doc_type = AOA /\ AmbiguityFindings # {}) =>
                (/\ Len(file_issues') = Len(file_issues)
                 /\ \E i \in AmbiguityFindings :
                       EnrichedBy(file_issues'[i], SugConsider)) ]_vars

\* the positions of the findings whose non-empty key, as computed before
\* the merge loop, contains key or is contained in it
SubstringMatches(key) ==
    {i \in 1..Len(issue_keys_current) :
        /\ Len(key) > 0 /\ Len(issue_keys_current[i]) > 0
        /\ (str_in(key, issue_keys_current[i]) \/ str_in(issue_keys_current[i], key))}

SectionFindings ==
    {i \in 1..Len(issue_keys_current) :
        issue_keys_current[i] = <<"m","i","s","s","i","n","g"," ","s","i","g","n","a","t","o","r","i","e","s"," ","s","e","c","t","i","o","n">>}

Annotated(comment) ==
    \E p \in 1..Len(doc) : \E r \in 1..Len(doc[p].runs) :
        str_lower(doc[p].runs[r].text) = str_lower(<<" ","[","C","O","M","M","E","N","T",":"," ">> \o comment \o <<"]">>)

\* the comment the annotation pass makes for a suggestion
SuggestionComment(item) ==
    LET tag == dict_get(item.m, "citation_label", <<"A","D","G","M"," ","R","e","f","e","r","e","n","c","e">>)
    IN <<"A","I"," ","S","u","g","g","e","s","t","i","o","n",":"," ">> \o dict_get(item.m, "suggestion", <<>>)
       \o (IF Len(tag) > 0 THEN <<" ","|"," ","S","o","u","r","c","e",":"," ">> \o tag ELSE <<>>)

\* C14: after the annotation pass every missing clause, red flag and AI
\* suggestion has its comment on a paragraph of the document -- every target
\* is an index of an existing paragraph, a clause no paragraph holds is
\* targeted at the last paragraph index (0 for a document without
\* paragraphs), and no comment is missing from the document.
C14_EveryFindingAnnotated ==
    pc = "save" =>
        /\ \A c \in 1..Len(ann_calls) :
              ann_calls[c].idx >= 0 /\ ann_calls[c].idx < Len(doc)
        /\ \A i \in 1..Len(missing_clauses) :
              /\ Annotated(<<"M","i","s","s","i","n","g"," ","r","e","q","u","i","r","e","d"," ","c","l","a","u","s","e",":"," ">> \o missing_clauses[i])
              /\ HitIndexes(missing_clauses[i]) = {} =>
                    TargetsOf(str_lower(<<"M","i","s","s","i","n","g"," ","r","e","q","u","i","r","e","d"," ","c","l","a","u","s","e",":"," ">>
                                        \o missing_clauses[i])) = {LastIndex}
        /\ \A i \in 1..Len(red_flags) :
              Annotated(<<"R","e","d"," ","f","l","a","g",":"," ">> \o red_flags[i].issue)
        /\ \A i \in 1..Len(items_of(ai_suggestions)) :
              Annotated(SuggestionComment(items_of(ai_suggestions)[i]))

\* C15: type inference never downgrades a type detected from the file name
\* -- while a file is processed, a name-derived type other than "Unknown" is
\* the document's type whatever the content heuristic would give, and the
\* content heuristic has been consulted at most once, and only when the name
\* gave "Unknown".
C15_TypeNotDowngraded ==
    pc \in {"rules", "ai", "merge", "annotate", "save", "aborted"} =>
        /\ content_calls <= 1
        /\ (content_calls = 1) <=> (name_type = UNKNOWN)
        /\ (name_type # UNKNOWN) => (doc_type = name_type)

\* a file whose name gives a type and whose content would give "Unknown"
C15_Witness ==
    /\ pc = "annotate"
    /\ name_type # UNKNOWN
    /\ infer_doc_type_from_text(doc_info.full_text) = UNKNOWN
    /\ doc_type = name_type

\* the positions of the current findings whose non-empty normalized key
\* contains the key of the suggestion taken up next, or is contained in it
KeyMatches ==
    {i \in 1..Len(file_issues) :
        LET k == normalize_issue_key(file_issues[i].issue)
            s == KeyOfSug(NextSug)
        IN Len(k) > 0 /\ Len(s) > 0 /\ (str_in(k, s) \/ str_in(s, k))}

\* C16: for an applicable suggestion the first finding, in list order, whose
\* key matches is the only finding modified -- it receives the suggestion's
\* AI suggestion, rationale and citation label, keeps its document, section,
\* issue, severity and rule-derived suggestion, and every other finding is
\* as it was.
C16_FirstMatchOnly ==
    [][ (/\ pc = "merge"
         /\ NextSug.t = "dict"
         /\ ~ Inapplicable(doc_type, KeyOfSug(NextSug))
         /\ KeyMatches # {})
        => (/\ Len(file_issues') = Len(file_issues)
            /\ EnrichedBy(file_issues'[FirstOf(KeyMatches)], NextSug)
            /\ Core(file_issues'[FirstOf(KeyMatches)])
                  = Core(file_issues[FirstOf(KeyMatches)])
            /\ \A i \in 1..Len(file_issues) :
                  i # FirstOf(KeyMatches) => file_issues'[i] = file_issues[i]) ]_vars

\* the positions in the document of its paragraphs that are not blank
NonBlank == {p \in 1..Len(doc) : Len(str_strip(doc[p].text)) > 0}

\* the position in the document of the extracted paragraph with 0-based
\* index i
RawPositionOf(i) ==
    CHOOSE p \in NonBlank : Cardinality({q \in NonBlank : q <= p}) = i + 1

\* C17: every comment is written onto the paragraph the resolver selected --
\* the paragraph of the document that received the comment is the one the
\* target index denotes in the extracted paragraph list, blank paragraphs
\* before it notwithstanding.
C17_WrittenOnSelected ==
    pc = "save" =>
        \A c \in 1..Len(ann_calls) :
            ann_calls[c].idx < Len(doc_info.paragraphs) =>
                \E r \in 1..Len(doc[RawPositionOf(ann_calls[c].idx)].runs) :
                    doc[RawPositionOf(ann_calls[c].idx)].runs[r].text
                        = <<" ","[","C","O","M","M","E","N","T",":"," ">> \o ann_calls[c].comment \o <<"]">>

=============================================================================
